---- MODULE Spec2Model ----
(***************************************************************************)
(* A model of the task orchestration and messaging core:                   *)
(*   TaskManager          src/src/core/task_manager.py                     *)
(*   BackgroundExecutor   src/src/core/background_executor.py              *)
(*   PlannerAgent         src/src/agents/planner.py (phase planning)       *)
(*   CommunicationManager src/src/core/communication.py                    *)
(*   MultiAgentCoordinator src/src/core/coordinator.py (_execute_task)     *)
(* Each behaviour follows one of these objects: `component' names the one  *)
(* that the process instantiated and every action is guarded by it.        *)
(*                                                                         *)
(* Conventions.  datetime values are abstracted: a timestamp field is      *)
(* FALSE while it is None and TRUE once set; the comparisons against       *)
(* datetime.now() are the *_late variables, which only the passing of time *)
(* (Tick actions) changes.  The coroutines run on one asyncio event loop,  *)
(* so an action is the code between two suspension points (an await that   *)
(* really suspends: a handler call, a sleep, a get on an empty queue).     *)
(* Status listeners are taken to return or raise without suspending.       *)
(***************************************************************************)
EXTENDS Integers, Sequences, FiniteSets, Bags, TLC

\* ---------------------------------------------------------------- bounds
MaxTasks == 2
MaxLoops == 2
\* Calls made to the TaskManager by its callers, and deadlines passing.
MaxCalls == 5
\* The same for the BackgroundExecutor, process crashes included.
MaxEvents == 5
\* Planner inputs: list length and number of dependency links.
MaxSubtasks == 3
MaxEdges == 3
\* Calls made to the CommunicationManager, and expiry times passing.
MaxBusCalls == 4
\* The number of messages _cleanup_loop keeps in the history (1000 in the
\* code), scaled down so that the calls above can exceed it.
HistoryLimit == 2

\* ------------------------------------------------------ program constants
LOW == 1
NORMAL == 2
HIGH == 3
URGENT == 4
TaskPriority == {LOW, NORMAL, HIGH, URGENT}
\* The priorities the modelled callers pass to create_task.
Priorities == {LOW, URGENT}
DefaultMaxRetries == 3
\* The max_retries the modelled callers pass to submit_task.
MaxRetriesArgs == {0, 1}

NoTask == 0

VARIABLES
    component, calls, task_handlers, timeout_arg, max_retries_arg, status_listeners,
    uuid_order,
    tm_tasks, tm_task_queue, tm_stats, tm_running, processing_task,
    tm_loops, tm_late, last_notified,
    be_tasks, db, db_conn, be_task_queue, be_stats, be_running, be_workers, be_late,
    be_detached,
    subtasks, plan_pc, sorted_subtasks, execution_phases,
    task_status, execution_results,
    current_task, agent_status, planning_result,
    message_queues, message_history, subscribers, cm_stats, cm_running,
    expired, last_receive

tm_vars == <<tm_tasks, tm_task_queue, tm_stats, tm_running,
             processing_task, tm_loops, tm_late, last_notified>>
be_vars == <<be_tasks, db, db_conn, be_task_queue, be_stats, be_running,
             be_workers, be_late, be_detached>>
\* What the callers were configured with before scheduling begins.
config == <<component, task_handlers, timeout_arg, max_retries_arg, status_listeners>>
\* The planner's variables and those of the coordinator's planned task.
pl_vars == <<subtasks, plan_pc, sorted_subtasks, execution_phases,
             task_status, execution_results,
             current_task, agent_status, planning_result>>
cm_vars == <<message_queues, message_history, subscribers, cm_stats, cm_running,
             expired, last_receive>>
vars == <<config, calls, uuid_order, tm_vars, be_vars, pl_vars, cm_vars>>

\* ------------------------------------------------------------ queue helpers
\* Task ids are str(uuid.uuid4()).  A task is named by its creation index
\* (1 for the first task created, as in the insertion order of the tasks dict)
\* and uuid_order lists the tasks in the string order of their uuids, which
\* is independent of the creation order.
Rank(id) == CHOOSE k \in 1..Len(uuid_order) : uuid_order[k] = id

InsertAt(seq, k, x) == SubSeq(seq, 1, k - 1) \o <<x>> \o SubSeq(seq, k, Len(seq))

\* asyncio.PriorityQueue over tuples (priority, task_id): a multiset of which
\* get() removes the least tuple in Python's tuple order.
TupleLess(a, b) == a[1] < b[1] \/ (a[1] = b[1] /\ Rank(a[2]) < Rank(b[2]))

QueueEmpty(q) == BagToSet(q) = {}

QueueGet(q) ==
    CHOOSE e \in BagToSet(q) : \A f \in BagToSet(q) : f = e \/ TupleLess(e, f)

QueuePut(q, e) == q (+) SetToBag({e})

QueueRemove(q, e) == q (-) SetToBag({e})

\* ============================================================ TaskManager
TM_Terminal == {"completed", "failed", "cancelled"}

TaskInfo(priority, timeout) ==
    [ priority |-> priority, status |-> "pending",
      started_at |-> FALSE, completed_at |-> FALSE, results |-> FALSE,
      error |-> "none", retry_count |-> 0, max_retries |-> DefaultMaxRetries,
      timeout |-> timeout ]

TM_InitStats ==
    [ total_tasks |-> 0, completed_tasks |-> 0, failed_tasks |-> 0, active_tasks |-> 0 ]

\* The listeners added with add_status_listener before scheduling begins, each
\* one by what it does when it is called.
ListenerConfigs == { << >>, <<"raises", "returns">> }

\* The loop of _notify_status_change from listener i on: the listeners called
\* (by their index in status_listeners) and whether an exception leaves the
\* method.  `caught' is the try/except around each call.
RECURSIVE NotifyFrom(_, _, _)
NotifyFrom(listeners, i, caught) ==
    IF i > Len(listeners)
    THEN [ invoked |-> [ k \in 1..Len(listeners) |-> k ], raised |-> FALSE ]
    ELSE IF listeners[i] = "raises" /\ ~caught
    THEN [ invoked |-> [ k \in 1..i |-> k ], raised |-> TRUE ]
    ELSE NotifyFrom(listeners, i + 1, caught)

\* What a notification leaves to observe: the listeners called, whether an
\* exception left the method, and the (task id, status) pairs the listeners
\* were called with, one pair for each call of _notify_status_change that the
\* operation made.
Notification(n, notified) ==
    [ invoked |-> n.invoked, raised |-> n.raised, notified |-> notified ]

_notify_status_change_Uncaught(listeners, task_id, status) ==
    Notification(NotifyFrom(listeners, 1, FALSE), << <<task_id, status>> >>)

_notify_status_change(listeners, task_id, status) ==
    Notification(NotifyFrom(listeners, 1, TRUE), << <<task_id, status>> >>)

\* No notification was made yet.
NoNotification == [ invoked |-> << >>, raised |-> FALSE, notified |-> << >> ]

\* `if status == TaskStatus.EXECUTING and not task.started_at'
RecordsStart_OnLeavingPending(task, status) == status # "pending" /\ ~task.started_at

RecordsStart(task, status) == status = "executing" /\ ~task.started_at

\* update_task_status: the new tasks map and counters.
update_task_status(tasks, stats, task_id, status, error) ==
    IF task_id \notin DOMAIN tasks
    THEN [ tasks |-> tasks, stats |-> stats ]
    ELSE LET task == tasks[task_id]
             t1 == [ task EXCEPT !.status = status ]
             t2 == IF RecordsStart(task, status)
                   THEN [ t1 EXCEPT !.started_at = TRUE ]
                   ELSE IF status \in TM_Terminal
                        THEN [ t1 EXCEPT !.completed_at = TRUE ]
                        ELSE t1
             s2 == IF ~RecordsStart(task, status) /\ status \in TM_Terminal
                   THEN [ stats EXCEPT
                            !.active_tasks = @ - 1,
                            !.completed_tasks = IF status = "completed" THEN @ + 1 ELSE @,
                            !.failed_tasks = IF status = "failed" THEN @ + 1 ELSE @ ]
                   ELSE stats
             t3 == IF error # "none" THEN [ t2 EXCEPT !.error = error ] ELSE t2
         IN  [ tasks |-> [ tasks EXCEPT ![task_id] = t3 ], stats |-> s2 ]

\* The comparisons with datetime.now().
TM_CreateDeadlinePassed_Never(t) == FALSE

TM_CreateDeadlinePassed(t) == tm_tasks[t].timeout /\ tm_late[t] >= 1

TM_StartDeadlinePassed(t) ==
    tm_tasks[t].timeout /\ tm_tasks[t].started_at /\ tm_late[t] = 2

TM_RetryAllowed_UpToMax(task) == task.retry_count <= task.max_retries

TM_RetryAllowed(task) == task.retry_count < task.max_retries

TM_InitVars ==
    /\ tm_tasks = << >>
    /\ tm_task_queue = EmptyBag
    /\ tm_stats = TM_InitStats
    /\ tm_running = FALSE
    /\ processing_task = NoTask
    /\ tm_loops = [ l \in 1..MaxLoops |-> [ pc |-> "none", task |-> NoTask ] ]
    /\ tm_late = << >>
    /\ last_notified = NoNotification

TM_start ==
    /\ component = "TaskManager"
    /\ calls < MaxCalls
    /\ calls' = calls + 1
    /\ ~tm_running
    /\ \E l \in 1..MaxLoops :
          /\ tm_loops[l].pc = "none"
          /\ \A k \in 1..(l - 1) : tm_loops[k].pc # "none"
          /\ tm_loops' = [ tm_loops EXCEPT ![l] = [ pc |-> "check", task |-> NoTask ] ]
    /\ tm_running' = TRUE
    /\ UNCHANGED <<config, uuid_order, be_vars, pl_vars, cm_vars, tm_tasks, tm_task_queue, tm_stats,
                   processing_task, tm_late, last_notified>>

TM_stop ==
    /\ component = "TaskManager"
    /\ calls < MaxCalls
    /\ calls' = calls + 1
    /\ tm_running
    /\ tm_running' = FALSE
    /\ UNCHANGED <<config, uuid_order, be_vars, pl_vars, cm_vars, tm_tasks, tm_task_queue, tm_stats,
                   processing_task, tm_loops, tm_late, last_notified>>

TM_create_task ==
    /\ component = "TaskManager"
    /\ calls < MaxCalls
    /\ calls' = calls + 1
    /\ Len(uuid_order) < MaxTasks
    /\ \E k \in 1..(Len(uuid_order) + 1), priority \in Priorities :
          LET id == Len(uuid_order) + 1 IN
          /\ uuid_order' = InsertAt(uuid_order, k, id)
          /\ tm_tasks' = [ t \in DOMAIN tm_tasks \cup {id} |->
                             IF t = id THEN TaskInfo(priority, timeout_arg)
                             ELSE tm_tasks[t] ]
          /\ tm_late' = [ t \in DOMAIN tm_tasks \cup {id} |->
                             IF t = id THEN 0 ELSE tm_late[t] ]
          /\ tm_stats' = [ tm_stats EXCEPT !.total_tasks = @ + 1, !.active_tasks = @ + 1 ]
          /\ tm_task_queue' = QueuePut(tm_task_queue, <<priority, id>>)
          /\ last_notified' = _notify_status_change(status_listeners, id, "pending")
    /\ UNCHANGED <<config, be_vars, pl_vars, cm_vars, tm_running, processing_task, tm_loops>>

\* The value cancel_task returns: False, with nothing changed, for an unknown
\* or terminal task; True after the task was set to cancelled.
cancel_task_returns(tasks, task_id) ==
    task_id \in DOMAIN tasks /\ tasks[task_id].status \notin TM_Terminal

TM_cancel_task ==
    /\ component = "TaskManager"
    /\ calls < MaxCalls
    /\ calls' = calls + 1
    /\ \E t \in DOMAIN tm_tasks :
          /\ cancel_task_returns(tm_tasks, t)
          /\ LET u == update_task_status(tm_tasks, tm_stats, t, "cancelled", "none")
             IN  tm_tasks' = u.tasks /\ tm_stats' = u.stats
          /\ last_notified' = _notify_status_change(status_listeners, t, "cancelled")
    /\ UNCHANGED <<config, uuid_order, be_vars, pl_vars, cm_vars, tm_task_queue, tm_running, processing_task,
                   tm_loops, tm_late>>

TM_pause_task ==
    /\ component = "TaskManager"
    /\ calls < MaxCalls
    /\ calls' = calls + 1
    /\ \E t \in DOMAIN tm_tasks :
          /\ tm_tasks[t].status \in {"executing", "monitoring"}
          /\ LET u == update_task_status(tm_tasks, tm_stats, t, "paused", "none")
             IN  tm_tasks' = u.tasks /\ tm_stats' = u.stats
          /\ last_notified' = _notify_status_change(status_listeners, t, "paused")
    /\ UNCHANGED <<config, uuid_order, be_vars, pl_vars, cm_vars, tm_task_queue, tm_running, processing_task,
                   tm_loops, tm_late>>

TM_resume_task ==
    /\ component = "TaskManager"
    /\ calls < MaxCalls
    /\ calls' = calls + 1
    /\ \E t \in DOMAIN tm_tasks :
          /\ tm_tasks[t].status = "paused"
          /\ LET u == update_task_status(tm_tasks, tm_stats, t, "executing", "none")
             IN  tm_tasks' = u.tasks /\ tm_stats' = u.stats
          /\ last_notified' = _notify_status_change(status_listeners, t, "executing")
    /\ UNCHANGED <<config, uuid_order, be_vars, pl_vars, cm_vars, tm_task_queue, tm_running, processing_task,
                   tm_loops, tm_late>>

\* retry_task: the value returned, and the tasks map and the queue after it.
retry_task(tasks, queue, task_id) ==
    IF task_id \notin DOMAIN tasks \/ tasks[task_id].status # "failed"
    THEN [ returns |-> FALSE, tasks |-> tasks, queue |-> queue ]
    ELSE IF ~TM_RetryAllowed(tasks[task_id])
    THEN [ returns |-> FALSE, tasks |-> tasks, queue |-> queue ]
    ELSE [ returns |-> TRUE,
           tasks |-> [ tasks EXCEPT ![task_id].retry_count = @ + 1,
                                    ![task_id].status = "pending",
                                    ![task_id].error = "none" ],
           queue |-> QueuePut(queue, <<tasks[task_id].priority, task_id>>) ]

\* The calls that return False change nothing and are left out.
TM_retry_task ==
    /\ component = "TaskManager"
    /\ calls < MaxCalls
    /\ calls' = calls + 1
    /\ \E t \in DOMAIN tm_tasks :
          LET r == retry_task(tm_tasks, tm_task_queue, t)
          IN  /\ r.returns
              /\ tm_tasks' = r.tasks
              /\ tm_task_queue' = r.queue
    /\ UNCHANGED <<config, uuid_order, be_vars, pl_vars, cm_vars, tm_stats, tm_running, processing_task,
                   tm_loops, tm_late, last_notified>>

\* The head of `while self.running' after a sleep or right after the
\* coroutine was created.
TM_LoopCheck(l) ==
    /\ component = "TaskManager"
    /\ tm_loops[l].pc = "check"
    /\ tm_loops' = [ tm_loops EXCEPT ![l].pc = IF tm_running THEN "get" ELSE "none" ]
    /\ UNCHANGED <<config, uuid_order, be_vars, pl_vars, cm_vars, calls, tm_tasks, tm_task_queue, tm_stats,
                   tm_running, processing_task, tm_late, last_notified>>

\* After `continue' the loop head is evaluated at once.
TM_AfterContinue == IF tm_running THEN "get" ELSE "none"

\* One pass of _task_processing_loop from queue.get() to the next suspension.
TM_LoopDequeue(l) ==
    /\ component = "TaskManager"
    /\ tm_loops[l].pc = "get"
    /\ ~QueueEmpty(tm_task_queue)
    /\ LET e == QueueGet(tm_task_queue)
           task_id == e[2]
           n == _notify_status_change(status_listeners, task_id, "executing")
           failed == _notify_status_change(status_listeners, task_id, "failed")
           both == [ failed EXCEPT !.notified = n.notified \o failed.notified ]
       IN  /\ tm_task_queue' = QueueRemove(tm_task_queue, e)
           /\ IF task_id \notin DOMAIN tm_tasks \/ tm_tasks[task_id].status # "pending"
              THEN /\ tm_loops' = [ tm_loops EXCEPT ![l].pc = TM_AfterContinue ]
                   /\ UNCHANGED <<tm_tasks, tm_stats, processing_task, last_notified>>
              ELSE IF TM_CreateDeadlinePassed(task_id)
              THEN LET u == update_task_status(tm_tasks, tm_stats, task_id, "failed", "timeout")
                   IN  /\ tm_tasks' = u.tasks
                       /\ tm_stats' = u.stats
                       /\ tm_loops' = [ tm_loops EXCEPT ![l].pc =
                                          IF n.raised THEN "check" ELSE TM_AfterContinue ]
                       /\ last_notified' = failed
                       /\ UNCHANGED processing_task
              ELSE LET u == update_task_status(tm_tasks, tm_stats, task_id, "executing", "none")
                   IN  IF n.raised
                       THEN \* the except clause of the loop: _execute_task is not called
                            LET f == update_task_status(u.tasks, u.stats, task_id,
                                                        "failed", "exception")
                            IN  /\ tm_tasks' = f.tasks
                                /\ tm_stats' = f.stats
                                /\ processing_task' = NoTask
                                /\ tm_loops' = [ tm_loops EXCEPT ![l].pc = "check" ]
                                /\ last_notified' = both
                       ELSE IF ~task_handlers
                       THEN \* _execute_task: no handler, ValueError caught at once
                            LET f == update_task_status(u.tasks, u.stats, task_id,
                                                        "failed", "no_handler")
                            IN  /\ tm_tasks' = f.tasks
                                /\ tm_stats' = f.stats
                                /\ processing_task' = NoTask
                                /\ tm_loops' = [ tm_loops EXCEPT ![l].pc = "check" ]
                                /\ last_notified' = both
                       ELSE /\ tm_tasks' = u.tasks
                            /\ tm_stats' = u.stats
                            /\ processing_task' = task_id
                            /\ tm_loops' = [ tm_loops EXCEPT
                                               ![l] = [ pc |-> "handler", task |-> task_id ] ]
                            /\ last_notified' = n
    /\ UNCHANGED <<config, uuid_order, be_vars, pl_vars, cm_vars, calls, tm_running, tm_late>>

\* _execute_task after `await handler(task)' returned a result.
TM_HandlerReturn(l) ==
    /\ component = "TaskManager"
    /\ tm_loops[l].pc = "handler"
    /\ LET t == tm_loops[l].task
           stored == [ tm_tasks EXCEPT ![t].results = TRUE ]
           u == update_task_status(stored, tm_stats, t, "completed", "none")
       IN  /\ tm_tasks' = u.tasks
           /\ tm_stats' = u.stats
           /\ last_notified' = _notify_status_change(status_listeners, t, "completed")
    /\ processing_task' = NoTask
    /\ tm_loops' = [ tm_loops EXCEPT ![l] = [ pc |-> "check", task |-> NoTask ] ]
    /\ UNCHANGED <<config, uuid_order, be_vars, pl_vars, cm_vars, calls, tm_task_queue, tm_running, tm_late>>

\* _execute_task after `await handler(task)' raised.
TM_HandlerRaise(l) ==
    /\ component = "TaskManager"
    /\ tm_loops[l].pc = "handler"
    /\ LET t == tm_loops[l].task
           u == update_task_status(tm_tasks, tm_stats, t, "failed", "exception")
       IN  /\ tm_tasks' = u.tasks
           /\ tm_stats' = u.stats
           /\ last_notified' = _notify_status_change(status_listeners, t, "failed")
    /\ processing_task' = NoTask
    /\ tm_loops' = [ tm_loops EXCEPT ![l] = [ pc |-> "check", task |-> NoTask ] ]
    /\ UNCHANGED <<config, uuid_order, be_vars, pl_vars, cm_vars, calls, tm_task_queue, tm_running, tm_late>>

\* The insertion order of the tasks dict.
TM_DictOrder == [ i \in 1..Len(uuid_order) |-> i ]

\* One scan of _timeout_check_loop over self.tasks.values() in dict order.
RECURSIVE TM_Scan(_, _, _)
TM_Scan(order, tasks, stats) ==
    IF order = << >> THEN [ tasks |-> tasks, stats |-> stats, failed |-> << >> ]
    ELSE LET t == Head(order)
             hit == /\ tasks[t].status \in {"executing", "monitoring"}
                    /\ TM_StartDeadlinePassed(t)
             u == IF hit
                  THEN update_task_status(tasks, stats, t, "failed", "exec_timeout")
                  ELSE [ tasks |-> tasks, stats |-> stats ]
             rest == TM_Scan(Tail(order), u.tasks, u.stats)
         IN  IF hit THEN [ rest EXCEPT !.failed = <<t>> \o @ ] ELSE rest

TM_timeout_check ==
    /\ component = "TaskManager"
    /\ tm_running
    /\ LET u == TM_Scan(TM_DictOrder, tm_tasks, tm_stats)
       IN  /\ u.tasks # tm_tasks
           /\ tm_tasks' = u.tasks
           /\ tm_stats' = u.stats
           /\ last_notified' =
                 [ _notify_status_change(status_listeners, Head(u.failed), "failed")
                     EXCEPT !.notified = [ i \in 1..Len(u.failed) |-> <<u.failed[i], "failed">> ] ]
    /\ UNCHANGED <<config, uuid_order, be_vars, pl_vars, cm_vars, calls, tm_task_queue, tm_running, processing_task,
                   tm_loops, tm_late>>

\* Time passes: created_at + timeout, then started_at + timeout, fall behind now.
TM_Tick ==
    /\ component = "TaskManager"
    /\ calls < MaxCalls
    /\ calls' = calls + 1
    /\ \E t \in DOMAIN tm_tasks :
          /\ tm_tasks[t].timeout
          /\ \/ tm_late[t] = 0
             \/ tm_late[t] = 1 /\ tm_tasks[t].started_at
          /\ tm_late' = [ tm_late EXCEPT ![t] = @ + 1 ]
    /\ UNCHANGED <<config, uuid_order, be_vars, pl_vars, cm_vars, tm_tasks, tm_task_queue, tm_stats, tm_running,
                   processing_task, tm_loops, last_notified>>

NextTM ==
    \/ TM_start
    \/ TM_stop
    \/ TM_create_task
    \/ TM_cancel_task
    \/ TM_pause_task
    \/ TM_resume_task
    \/ TM_retry_task
    \/ \E l \in 1..MaxLoops : TM_LoopCheck(l)
    \/ \E l \in 1..MaxLoops : TM_LoopDequeue(l)
    \/ \E l \in 1..MaxLoops : TM_HandlerReturn(l)
    \/ \E l \in 1..MaxLoops : TM_HandlerRaise(l)
    \/ TM_timeout_check
    \/ TM_Tick

\* ===================================================== BackgroundExecutor
worker_count == 3
BE_Terminal == {"completed", "failed", "cancelled"}

BackgroundTask(priority, timeout, max_retries) ==
    [ status |-> "pending", priority |-> priority, started_at |-> FALSE,
      completed_at |-> FALSE, result |-> "none", error |-> "none",
      retry_count |-> 0, max_retries |-> max_retries, timeout |-> timeout ]

BE_InitStats ==
    [ total_tasks |-> 0, completed_tasks |-> 0, failed_tasks |-> 0, active_tasks |-> 0 ]

\* The row _persist_task writes: json.dumps(task.result) if task.result else None
\* stores a falsy result (such as {}) as NULL.
Row(task) == [ task EXCEPT !.result = IF @ = "value" THEN "value" ELSE "none" ]

\* _persist_task: INSERT OR REPLACE; any exception (such as db_conn being None)
\* is logged and swallowed.
_persist_task(store, conn, task_id, task) ==
    IF conn
    THEN [ t \in DOMAIN store \cup {task_id} |->
             IF t = task_id THEN Row(task) ELSE store[t] ]
    ELSE store

\* _load_persisted_tasks: the rows selected, the tasks map and the queue after it.
BE_LoadedRows(store) == { t \in DOMAIN store : store[t].status \in {"pending", "running"} }

BE_Requeued(store) == { t \in DOMAIN store : store[t].status = "pending" }

BE_LoadTasks(tasks, store) ==
    [ t \in DOMAIN tasks \cup BE_LoadedRows(store) |->
        IF t \in BE_LoadedRows(store) THEN store[t] ELSE tasks[t] ]

BE_LoadQueue(q, store) ==
    q (+) [ e \in { <<store[t].priority, t>> : t \in BE_Requeued(store) } |-> 1 ]

BE_ShouldRetry_Off(task) == task.retry_count <= task.max_retries

BE_ShouldRetry(task) == task.retry_count < task.max_retries

BE_CreateDeadlinePassed(t) == be_tasks[t].timeout /\ be_late[t] >= 1

BE_Idle == worker_count - BagCardinality(be_workers)

BE_Executing(t) == BagIn(t, be_workers)

BE_InitVars ==
    /\ be_tasks = << >>
    /\ db = << >>
    /\ db_conn = FALSE
    /\ be_task_queue = EmptyBag
    /\ be_stats = BE_InitStats
    /\ be_running = FALSE
    /\ be_workers = EmptyBag
    /\ be_late = << >>
    /\ be_detached = << >>

BE_Budget ==
    /\ component = "BackgroundExecutor"
    /\ calls < MaxEvents
    /\ calls' = calls + 1
    /\ UNCHANGED config

\* start(): _init_database, _load_persisted_tasks, then worker_count workers.
BE_start ==
    /\ BE_Budget
    /\ ~be_running
    /\ db_conn' = TRUE
    /\ be_tasks' = BE_LoadTasks(be_tasks, db)
    /\ be_task_queue' = BE_LoadQueue(be_task_queue, db)
    /\ be_running' = TRUE
    /\ be_workers' = EmptyBag
    /\ be_detached' = << >>
    /\ UNCHANGED <<uuid_order, pl_vars, cm_vars, tm_vars, db, be_stats, be_late>>

\* stop(): the workers are cancelled wherever they are suspended.
BE_stop ==
    /\ BE_Budget
    /\ be_running
    /\ be_running' = FALSE
    /\ be_workers' = EmptyBag
    /\ be_detached' = << >>
    /\ db_conn' = FALSE
    /\ UNCHANGED <<uuid_order, pl_vars, cm_vars, tm_vars, be_tasks, db, be_task_queue, be_stats, be_late>>

\* The process dies and a new one constructs BackgroundExecutor on the same
\* db_path: only the store (and the time elapsed) survive.
BE_Crash ==
    /\ BE_Budget
    /\ DOMAIN be_tasks # {}
    /\ be_tasks' = << >>
    /\ db_conn' = FALSE
    /\ be_task_queue' = EmptyBag
    /\ be_stats' = BE_InitStats
    /\ be_running' = FALSE
    /\ be_workers' = EmptyBag
    /\ be_detached' = << >>
    /\ UNCHANGED <<uuid_order, pl_vars, cm_vars, tm_vars, db, be_late>>

BE_submit_task ==
    /\ BE_Budget
    /\ Len(uuid_order) < MaxTasks
    /\ \E k \in 1..(Len(uuid_order) + 1), priority \in Priorities :
          LET id == Len(uuid_order) + 1
              task == BackgroundTask(priority, timeout_arg, max_retries_arg)
          IN  /\ uuid_order' = InsertAt(uuid_order, k, id)
              /\ be_tasks' = [ t \in DOMAIN be_tasks \cup {id} |->
                                 IF t = id THEN task ELSE be_tasks[t] ]
              /\ db' = _persist_task(db, db_conn, id, task)
              /\ be_task_queue' = QueuePut(be_task_queue, <<priority, id>>)
              /\ be_late' = [ t \in DOMAIN be_late \cup {id} |->
                                 IF t = id THEN 0 ELSE be_late[t] ]
    /\ be_stats' = [ be_stats EXCEPT !.total_tasks = @ + 1, !.active_tasks = @ + 1 ]
    /\ UNCHANGED <<pl_vars, cm_vars, tm_vars, db_conn, be_running, be_workers, be_detached>>

\* The value BackgroundExecutor.cancel_task returns, as in the TaskManager.
BE_cancel_task_returns(tasks, task_id) ==
    task_id \in DOMAIN tasks /\ tasks[task_id].status \notin BE_Terminal

BE_cancel_task ==
    /\ BE_Budget
    /\ \E t \in DOMAIN be_tasks :
          /\ BE_cancel_task_returns(be_tasks, t)
          /\ LET task == [ be_tasks[t] EXCEPT !.status = "cancelled", !.completed_at = TRUE ]
             IN  /\ be_tasks' = [ be_tasks EXCEPT ![t] = task ]
                 /\ db' = _persist_task(db, db_conn, t, task)
    /\ be_stats' = [ be_stats EXCEPT !.active_tasks = @ - 1 ]
    /\ UNCHANGED <<uuid_order, pl_vars, cm_vars, tm_vars, db_conn, be_task_queue, be_running,
                   be_workers, be_late, be_detached>>

\* The except branch of _execute_task: retry or final failure.
\* Gives the task, whether it is put back in the queue, and the counters.
BE_OnException_NoRequeue(task, stats, error) ==
    IF BE_ShouldRetry(task)
    THEN [ task |-> [ task EXCEPT !.retry_count = @ + 1, !.status = "pending",
                                  !.error = error ],
           requeue |-> FALSE, stats |-> stats ]
    ELSE [ task |-> [ task EXCEPT !.status = "failed", !.error = error,
                                  !.completed_at = TRUE ],
           requeue |-> FALSE,
           stats |-> [ stats EXCEPT !.active_tasks = @ - 1, !.failed_tasks = @ + 1 ] ]

BE_OnException(task, stats, error) ==
    IF BE_ShouldRetry(task)
    THEN [ task |-> [ task EXCEPT !.retry_count = @ + 1, !.status = "pending",
                                  !.error = error ],
           requeue |-> TRUE, stats |-> stats ]
    ELSE [ task |-> [ task EXCEPT !.status = "failed", !.error = error,
                                  !.completed_at = TRUE ],
           requeue |-> FALSE,
           stats |-> [ stats EXCEPT !.active_tasks = @ - 1, !.failed_tasks = @ + 1 ] ]

\* `if not task or task.status != "pending": continue'
BE_WorkerSkips_UnknownOnly(tasks, task_id) == task_id \notin DOMAIN tasks

BE_WorkerSkips(tasks, task_id) ==
    task_id \notin DOMAIN tasks \/ tasks[task_id].status # "pending"

\* One pass of _worker from task_queue.get() to the next suspension.
BE_WorkerGet ==
    /\ component = "BackgroundExecutor"
    /\ be_running
    /\ BE_Idle > 0
    /\ ~QueueEmpty(be_task_queue)
    /\ LET e == QueueGet(be_task_queue)
           t == e[2]
           q == QueueRemove(be_task_queue, e)
       IN  IF BE_WorkerSkips(be_tasks, t)
           THEN /\ be_task_queue' = q
                /\ UNCHANGED <<be_tasks, db, be_stats, be_workers>>
           ELSE IF BE_CreateDeadlinePassed(t)
           THEN LET task == [ be_tasks[t] EXCEPT !.status = "failed", !.error = "timeout",
                                                 !.completed_at = TRUE ]
                IN  /\ be_task_queue' = q
                    /\ be_tasks' = [ be_tasks EXCEPT ![t] = task ]
                    /\ db' = _persist_task(db, db_conn, t, task)
                    /\ be_stats' = [ be_stats EXCEPT !.active_tasks = @ - 1,
                                                     !.failed_tasks = @ + 1 ]
                    /\ UNCHANGED be_workers
           ELSE LET started == [ be_tasks[t] EXCEPT !.status = "running",
                                                    !.started_at = TRUE ]
                    db1 == _persist_task(db, db_conn, t, started)
                IN  IF task_handlers
                    THEN /\ be_task_queue' = q
                         /\ be_tasks' = [ be_tasks EXCEPT ![t] = started ]
                         /\ db' = db1
                         /\ be_workers' = be_workers (+) SetToBag({t})
                         /\ UNCHANGED be_stats
                    ELSE LET x == BE_OnException(started, be_stats, "no_handler")
                         IN  /\ be_tasks' = [ be_tasks EXCEPT ![t] = x.task ]
                             /\ db' = _persist_task(db1, db_conn, t, x.task)
                             /\ be_task_queue' =
                                   IF x.requeue THEN QueuePut(q, <<x.task.priority, t>>) ELSE q
                             /\ be_stats' = x.stats
                             /\ UNCHANGED be_workers
    /\ UNCHANGED <<config, calls, uuid_order, pl_vars, cm_vars, tm_vars, db_conn, be_running, be_late,
                   be_detached>>

\* The task object a worker holds: the entry of the tasks dict or, after
\* cleanup_old_tasks deleted the entry, the object alone.
BE_TaskObject(t) == IF t \in DOMAIN be_tasks THEN be_tasks[t] ELSE be_detached[t]

\* The tasks dict and the objects held by workers alone, after a worker
\* changed its task object to `task' and is done with it.
BE_Update(tasks, t, task) == IF t \in DOMAIN tasks THEN [ tasks EXCEPT ![t] = task ] ELSE tasks

BE_Release(detached, t) == [ d \in DOMAIN detached \ {t} |-> detached[d] ]

\* _execute_task after `await handler(task.data)' returned a result.
BE_HandlerReturn ==
    /\ component = "BackgroundExecutor"
    /\ \E t \in BagToSet(be_workers), r \in {"falsy", "value"} :
          LET task == [ BE_TaskObject(t) EXCEPT !.status = "completed", !.completed_at = TRUE,
                                                !.result = r ]
          IN  /\ be_tasks' = BE_Update(be_tasks, t, task)
              /\ be_detached' = BE_Release(be_detached, t)
              /\ db' = _persist_task(db, db_conn, t, task)
              /\ be_workers' = be_workers (-) SetToBag({t})
    /\ be_stats' = [ be_stats EXCEPT !.active_tasks = @ - 1, !.completed_tasks = @ + 1 ]
    /\ UNCHANGED <<config, calls, uuid_order, pl_vars, cm_vars, tm_vars, db_conn, be_task_queue, be_running, be_late>>

\* _execute_task after `await handler(task.data)' raised.
BE_HandlerRaise ==
    /\ component = "BackgroundExecutor"
    /\ \E t \in BagToSet(be_workers) :
          LET x == BE_OnException(BE_TaskObject(t), be_stats, "exception")
          IN  /\ be_tasks' = BE_Update(be_tasks, t, x.task)
              /\ be_detached' = BE_Release(be_detached, t)
              /\ db' = _persist_task(db, db_conn, t, x.task)
              /\ be_task_queue' =
                    IF x.requeue THEN QueuePut(be_task_queue, <<x.task.priority, t>>)
                    ELSE be_task_queue
              /\ be_stats' = x.stats
              /\ be_workers' = be_workers (-) SetToBag({t})
    /\ UNCHANGED <<config, calls, uuid_order, pl_vars, cm_vars, tm_vars, db_conn, be_running, be_late>>

\* The records with `completed_at IS NOT NULL AND completed_at < cutoff' for a
\* cutoff that every completion so far lies behind.
BE_Old(records) == { t \in DOMAIN records : records[t].completed_at }

\* cleanup_old_tasks: the store and the tasks map without the old records.
cleanup_old_tasks(tasks, store) ==
    [ store |-> [ t \in DOMAIN store \ BE_Old(store) |-> store[t] ],
      tasks |-> [ t \in DOMAIN tasks \ BE_Old(tasks) |-> tasks[t] ] ]

\* cleanup_old_tasks called when the retention time of the finished tasks has
\* passed.  Without a connection the cursor() call raises, which is logged,
\* and nothing is deleted; a call that finds nothing old changes nothing.
BE_cleanup_old_tasks ==
    /\ BE_Budget
    /\ db_conn
    /\ LET c == cleanup_old_tasks(be_tasks, db)
       IN  /\ c.store # db \/ c.tasks # be_tasks
           /\ db' = c.store
           /\ be_tasks' = c.tasks
           /\ be_detached' =
                 [ t \in DOMAIN be_detached \cup
                          { d \in BE_Old(be_tasks) : BE_Executing(d) } |->
                     IF t \in DOMAIN be_tasks THEN be_tasks[t] ELSE be_detached[t] ]
    /\ UNCHANGED <<uuid_order, pl_vars, cm_vars, tm_vars, db_conn, be_task_queue, be_stats,
                   be_running, be_workers, be_late>>

\* Time passes: created_at + timeout falls behind now.
BE_Tick ==
    /\ BE_Budget
    /\ \E t \in DOMAIN be_late :
          /\ t \in DOMAIN db \cup DOMAIN be_tasks
          /\ (IF t \in DOMAIN be_tasks THEN be_tasks[t] ELSE db[t]).timeout
          /\ be_late[t] = 0
          /\ be_late' = [ be_late EXCEPT ![t] = 1 ]
    /\ UNCHANGED <<uuid_order, pl_vars, cm_vars, tm_vars, be_tasks, db, db_conn, be_task_queue,
                   be_stats, be_running, be_workers, be_detached>>

NextBE ==
    \/ BE_start
    \/ BE_stop
    \/ BE_Crash
    \/ BE_submit_task
    \/ BE_cancel_task
    \/ BE_WorkerGet
    \/ BE_HandlerReturn
    \/ BE_HandlerRaise
    \/ BE_cleanup_old_tasks
    \/ BE_Tick

\* =========================================================== PlannerAgent
\* A subtask is [id, priority, dependencies].  Subtask ids are distinct.
SubtaskIds == <<"a", "b", "c", "d">>
\* An id no subtask of the list has.
UnknownId == "x"
\* The priorities the decomposition gives its subtasks.
SubtaskPriorities == {1, 2}

Ids(seq) == { seq[i].id : i \in 1..Len(seq) }

RemoveAt_Keep(seq, i) == seq

RemoveAt(seq, i) == SubSeq(seq, 1, i - 1) \o SubSeq(seq, i + 1, Len(seq))

\* The indices in remaining_tasks of ready_tasks: the tasks whose dependencies
\* are all sorted already or, when there is none (a cycle), every task
\* (sorted() by priority is stable, so min() takes the same task either way).
ReadyIndices(sorted_tasks, remaining_tasks) ==
    LET ready == { i \in 1..Len(remaining_tasks) :
                      remaining_tasks[i].dependencies \subseteq Ids(sorted_tasks) }
    IN  IF ready = {} THEN 1..Len(remaining_tasks) ELSE ready

\* next_task, as an index in remaining_tasks: min() returns the first of the
\* ready tasks that has the lowest priority value.
NextTask_FirstReady(sorted_tasks, remaining_tasks) ==
    LET ready == ReadyIndices(sorted_tasks, remaining_tasks)
    IN  CHOOSE i \in ready : \A j \in ready : i <= j

NextTask(sorted_tasks, remaining_tasks) ==
    LET ready == ReadyIndices(sorted_tasks, remaining_tasks)
    IN  CHOOSE i \in ready :
          /\ \A j \in ready : remaining_tasks[i].priority <= remaining_tasks[j].priority
          /\ \A j \in ready : j < i => remaining_tasks[j].priority # remaining_tasks[i].priority

\* One iteration of `while remaining_tasks:': next_task is appended to
\* sorted_tasks and removed from remaining_tasks.
TopoIteration(sorted_tasks, remaining_tasks) ==
    LET i == NextTask(sorted_tasks, remaining_tasks)
    IN  [ sorted |-> Append(sorted_tasks, remaining_tasks[i]),
          remaining |-> RemoveAt(remaining_tasks, i) ]

RECURSIVE TopoLoop(_, _)
TopoLoop(sorted_tasks, remaining_tasks) ==
    IF remaining_tasks = << >> THEN sorted_tasks
    ELSE LET n == TopoIteration(sorted_tasks, remaining_tasks)
         IN  TopoLoop(n.sorted, n.remaining)

_topological_sort(tasks) == TopoLoop(<< >>, tasks)

\* `if current_phase:' then execution_phases.append(...)
ClosePhase_Dropped(phases, current_phase) == phases

ClosePhase(phases, current_phase) ==
    IF current_phase # << >> THEN Append(phases, current_phase) ELSE phases

\* dependencies.issubset(current_dependencies)
JoinsCurrentPhase(dependencies, current_dependencies, current_phase) ==
    dependencies \subseteq current_dependencies

RECURSIVE PhaseLoop(_, _, _, _)
PhaseLoop(rest, phases, current_phase, current_dependencies) ==
    IF rest = << >> THEN ClosePhase(phases, current_phase)
    ELSE LET subtask == Head(rest)
             deps == current_dependencies \cup {subtask.id}
         IN  IF JoinsCurrentPhase(subtask.dependencies, current_dependencies, current_phase)
             THEN PhaseLoop(Tail(rest), phases, Append(current_phase, subtask.id), deps)
             ELSE PhaseLoop(Tail(rest), ClosePhase(phases, current_phase),
                            <<subtask.id>>, deps)

\* The "phases" of _create_execution_plan, each phase the list of its subtask ids.
_create_execution_plan(sorted) == PhaseLoop(sorted, << >>, << >>, {})

\* The inputs: lists of one to MaxSubtasks subtasks with at most MaxEdges
\* dependency links in all (to subtasks of the list or to an unknown id), and
\* the diamond a <- b, c <- d.
RECURSIVE EdgeSets(_, _)
EdgeSets(edges, k) ==
    IF k = 0 THEN { {} }
    ELSE LET smaller == EdgeSets(edges, k - 1)
         IN  smaller \cup { s \cup {e} : s \in smaller, e \in edges }

SubtaskList(n, links, prio) ==
    [ i \in 1..n |-> [ id |-> SubtaskIds[i], priority |-> prio[i],
                       dependencies |-> { e[2] : e \in { l \in links : l[1] = SubtaskIds[i] } } ] ]

Diamond == { <<"b", "a">>, <<"c", "a">>, <<"d", "b">>, <<"d", "c">> }

\* The dependency links a list of n subtasks may have.
Links(n) ==
    EdgeSets({ SubtaskIds[i] : i \in 1..n }
               \X ({ SubtaskIds[i] : i \in 1..n } \cup {UnknownId}), MaxEdges)

\* The decomposition _decompose_task falls back on when the reply of the
\* language service is not JSON: three subtasks of priority 1, 2 and 3, each
\* depending on the one before it.
DefaultDecomposition ==
    SubtaskList(3, { <<"b", "a">>, <<"c", "b">> }, <<1, 2, 3>>)

PlannerInput(list) ==
    \/ \E n \in 1..MaxSubtasks :
          \E links \in Links(n), prio \in [ 1..n -> SubtaskPriorities ] :
              list = SubtaskList(n, links, prio)
    \/ \E prio \in [ 1..4 -> SubtaskPriorities ] : list = SubtaskList(4, Diamond, prio)
    \/ list = DefaultDecomposition

\* The names bound in the module planner.py: its imports and definitions.
PlannerModuleNames ==
    { "json", "Dict", "List", "Any", "Optional", "datetime", "BaseLLM", "BaseMessage",
      "HumanMessage", "SystemMessage", "BaseAgent", "AgentCapabilities", "AgentStatus",
      "get_logger", "logger", "PlannerAgent" }

\* `task.get("id", str(uuid.uuid4()))': both arguments are evaluated before
\* get is called, the default too when the task has an id.
ResultTaskId(names, task) ==
    IF "uuid" \notin names THEN "NameError"
    ELSE IF task.has_id THEN "id" ELSE "uuid4"

\* _assign_agents when the reply is not JSON: the descriptions of the
\* subtasks name neither a browser nor a monitor.
_assign_agents(list) == [ id \in Ids(list) |-> "executor" ]

\* execute has returned nothing yet.
NoResult ==
    [ raised |-> "none", task_id |-> "none", subtasks |-> << >>,
      agent_assignments |-> << >>, execution_plan |-> << >> ]

\* The end of execute, from `result = {' on: the value returned, or the
\* exception that leaves execute, and the agent's status.
execute(names, task, list, plan) ==
    LET task_id == ResultTaskId(names, task)
    IN  IF task_id = "NameError"
        THEN [ status |-> "error", result |-> [ NoResult EXCEPT !.raised = "NameError" ] ]
        ELSE [ status |-> "completed",
               result |-> [ raised |-> "none", task_id |-> task_id, subtasks |-> list,
                            agent_assignments |-> _assign_agents(list),
                            execution_plan |-> plan ] ]

PL_InitVars ==
    /\ subtasks = << >>
    /\ plan_pc = "input"
    /\ sorted_subtasks = << >>
    /\ execution_phases = << >>
    /\ task_status = "pending"
    /\ execution_results = << >>
    /\ current_task = [ has_id |-> FALSE ]
    /\ agent_status = "idle"
    /\ planning_result = NoResult

\* _create_execution_plan, first statement.
PL_topological_sort ==
    /\ component = "PlannerAgent"
    /\ plan_pc = "input"
    /\ sorted_subtasks' = _topological_sort(subtasks)
    /\ plan_pc' = "sorted"
    /\ UNCHANGED <<config, calls, uuid_order, tm_vars, be_vars, cm_vars, current_task,
                   agent_status, planning_result, subtasks,
                   execution_phases, task_status, execution_results>>

\* _create_execution_plan, the loop over sorted_subtasks.
PL_create_phases ==
    /\ component = "PlannerAgent"
    /\ plan_pc = "sorted"
    /\ execution_phases' = _create_execution_plan(sorted_subtasks)
    /\ plan_pc' = "planned"
    /\ UNCHANGED <<config, calls, uuid_order, tm_vars, be_vars, cm_vars, current_task,
                   agent_status, planning_result, subtasks,
                   sorted_subtasks, task_status, execution_results>>

\* execute after _create_execution_plan returned.
PL_execute_returns ==
    /\ component = "PlannerAgent"
    /\ plan_pc = "planned"
    /\ LET r == execute(PlannerModuleNames, current_task, subtasks, execution_phases)
       IN  /\ agent_status' = r.status
           /\ planning_result' = r.result
    /\ plan_pc' = "done"
    /\ UNCHANGED <<config, calls, uuid_order, tm_vars, be_vars, cm_vars, current_task,
                   subtasks, sorted_subtasks, execution_phases, task_status,
                   execution_results>>

\* _create_execution_plan alone, and execute from its call of
\* _create_execution_plan to its end.
NextPL ==
    \/ PL_topological_sort
    \/ PL_create_phases

NextExecute ==
    \/ NextPL
    \/ PL_execute_returns

\* ================================================== MultiAgentCoordinator
\* _execute_task of one task that _task_processing_loop took from its queue
\* and set to planning.  planner.execute returns the decomposition ("subtasks",
\* in the order the decomposition listed them) and the plan made from it.
CO_planning ==
    /\ component = "MultiAgentCoordinator"
    /\ task_status = "planning"
    /\ plan_pc = "input"
    /\ sorted_subtasks' = _topological_sort(subtasks)
    /\ execution_phases' = _create_execution_plan(sorted_subtasks')
    /\ plan_pc' = "planned"
    /\ task_status' = "executing"
    /\ UNCHANGED <<config, calls, uuid_order, tm_vars, be_vars, cm_vars, current_task,
                   agent_status, planning_result, subtasks,
                   execution_results>>

\* No planner agent is registered, or planner.execute raises.
CO_planning_fails ==
    /\ component = "MultiAgentCoordinator"
    /\ task_status = "planning"
    /\ task_status' = "failed"
    /\ UNCHANGED <<config, calls, uuid_order, tm_vars, be_vars, cm_vars, current_task,
                   agent_status, planning_result, subtasks, plan_pc,
                   sorted_subtasks, execution_phases, execution_results>>

\* The subtask the loop `for subtask in task.subtasks' is at.
CO_NextSubtask == subtasks[Len(execution_results) + 1]

\* One turn of the loop: the subtask is given to its agent, whose result
\* (with "success" true or false) is appended to execution_results.
CO_execute_subtask ==
    /\ component = "MultiAgentCoordinator"
    /\ task_status = "executing"
    /\ Len(execution_results) < Len(subtasks)
    /\ \E success \in BOOLEAN :
          execution_results' =
             Append(execution_results, [ id |-> CO_NextSubtask.id, success |-> success ])
    /\ UNCHANGED <<config, calls, uuid_order, tm_vars, be_vars, cm_vars, current_task,
                   agent_status, planning_result, subtasks, plan_pc,
                   sorted_subtasks, execution_phases, task_status>>

\* The monitoring stage and the final results.
CO_complete ==
    /\ component = "MultiAgentCoordinator"
    /\ task_status = "executing"
    /\ Len(execution_results) = Len(subtasks)
    /\ task_status' = "completed"
    /\ UNCHANGED <<config, calls, uuid_order, tm_vars, be_vars, cm_vars, current_task,
                   agent_status, planning_result, subtasks, plan_pc,
                   sorted_subtasks, execution_phases, execution_results>>

NextCO ==
    \/ CO_planning
    \/ CO_planning_fails
    \/ CO_execute_subtask
    \/ CO_complete

\* =================================================== CommunicationManager
MessagePriority == {LOW, NORMAL, HIGH, URGENT}
Agents == {"agent1", "agent2"}
Topics == {"topic"}
NoMessage == [ id |-> 0 ]

CM_InitStats ==
    [ messages_sent |-> 0, messages_received |-> 0, messages_failed |-> 0,
      active_agents |-> 0 ]

\* message.expires_at and message.expires_at < datetime.now()
IsExpired_Never(message) == FALSE

IsExpired(message) == message.expires_at /\ message.id \in expired

CM_InitVars ==
    /\ message_queues = << >>
    /\ message_history = << >>
    /\ subscribers = << >>
    /\ cm_stats = CM_InitStats
    /\ cm_running = FALSE
    /\ expired = {}
    /\ last_receive = NoMessage

CM_Budget ==
    /\ component = "CommunicationManager"
    /\ calls < MaxBusCalls
    /\ calls' = calls + 1
    /\ UNCHANGED <<config, uuid_order, tm_vars, be_vars, pl_vars>>

CM_start ==
    /\ CM_Budget
    /\ ~cm_running
    /\ cm_running' = TRUE
    /\ UNCHANGED <<message_queues, message_history, subscribers, cm_stats, expired,
                   last_receive>>

CM_stop ==
    /\ CM_Budget
    /\ cm_running
    /\ cm_running' = FALSE
    /\ UNCHANGED <<message_queues, message_history, subscribers, cm_stats, expired,
                   last_receive>>

\* register_agent: message_queues after it; a registered agent keeps its queue.
register_agent(queues, agent_id) ==
    IF agent_id \in DOMAIN queues THEN queues
    ELSE [ a \in DOMAIN queues \cup {agent_id} |->
             IF a = agent_id THEN << >> ELSE queues[a] ]

\* The calls for a registered agent change nothing and are left out.
CM_register_agent ==
    /\ CM_Budget
    /\ \E agent_id \in Agents \ DOMAIN message_queues :
          message_queues' = register_agent(message_queues, agent_id)
    /\ cm_stats' = [ cm_stats EXCEPT !.active_agents = @ + 1 ]
    /\ UNCHANGED <<message_history, subscribers, cm_running, expired, last_receive>>

\* unregister_agent: `del self.message_queues[agent_id]'
unregister_agent_Keep(queues, agent_id) == queues

unregister_agent(queues, agent_id) == [ a \in DOMAIN queues \ {agent_id} |-> queues[a] ]

\* The calls for an agent that is not registered change nothing and are left out.
CM_unregister_agent ==
    /\ CM_Budget
    /\ \E agent_id \in DOMAIN message_queues :
          message_queues' = unregister_agent(message_queues, agent_id)
    /\ cm_stats' = [ cm_stats EXCEPT !.active_agents = @ - 1 ]
    /\ UNCHANGED <<message_history, subscribers, cm_running, expired, last_receive>>

SubscribersOf(topic) == IF topic \in DOMAIN subscribers THEN subscribers[topic] ELSE << >>

InSeq(x, seq) == \E i \in 1..Len(seq) : seq[i] = x

CM_subscribe_to_topic ==
    /\ CM_Budget
    /\ \E agent_id \in Agents, topic \in Topics :
          /\ ~InSeq(agent_id, SubscribersOf(topic))
          /\ subscribers' = [ t \in DOMAIN subscribers \cup {topic} |->
                                IF t = topic THEN Append(SubscribersOf(topic), agent_id)
                                ELSE subscribers[t] ]
    /\ UNCHANGED <<message_queues, message_history, cm_stats, cm_running, expired,
                   last_receive>>

CM_unsubscribe_from_topic ==
    /\ CM_Budget
    /\ \E agent_id \in Agents, topic \in DOMAIN subscribers :
          /\ InSeq(agent_id, subscribers[topic])
          /\ subscribers' = [ subscribers EXCEPT ![topic] =
                                SelectSeq(@, LAMBDA a : a # agent_id) ]
    /\ UNCHANGED <<message_queues, message_history, cm_stats, cm_running, expired,
                   last_receive>>

Message(id, recipient, priority, expires_at) ==
    [ id |-> id, recipient |-> recipient, priority |-> priority, expires_at |-> expires_at ]

\* send_message applied to a state [queues, history, stats, next]: next is the
\* number of messages created so far, which names the new message.
SendMessage(st, recipient, priority, expires_at) ==
    LET message == Message(st.next + 1, recipient, priority, expires_at)
    IN  [ queues |-> IF recipient \in DOMAIN st.queues
                     THEN [ st.queues EXCEPT ![recipient] = Append(@, message) ]
                     ELSE st.queues,
          history |-> Append(st.history, message),
          stats |-> IF recipient \in DOMAIN st.queues
                    THEN [ st.stats EXCEPT !.messages_sent = @ + 1 ]
                    ELSE [ st.stats EXCEPT !.messages_failed = @ + 1 ],
          next |-> st.next + 1 ]

\* Messages are created only by send_message; none is ever created twice.
Created == cm_stats.messages_sent + cm_stats.messages_failed

CM_State == [ queues |-> message_queues, history |-> message_history,
              stats |-> cm_stats, next |-> Created ]

\* The priorities and expiry times the callers pass: no expiry, one already
\* past when the message is sent, or one still to come.
CM_send_message ==
    /\ CM_Budget
    /\ \E recipient \in Agents, priority \in {NORMAL, URGENT},
          expires_at \in {"none", "past", "future"} :
          LET st == SendMessage(CM_State, recipient, priority, expires_at # "none")
          IN  /\ message_queues' = st.queues
              /\ message_history' = st.history
              /\ cm_stats' = st.stats
              /\ expired' = IF expires_at = "past" THEN expired \cup {st.next} ELSE expired
    /\ UNCHANGED <<subscribers, cm_running, last_receive>>

RECURSIVE SendAll(_, _, _)
SendAll(st, recipients, priority) ==
    IF recipients = << >> THEN st
    ELSE SendAll(SendMessage(st, Head(recipients), priority, FALSE), Tail(recipients), priority)

\* The keys of message_queues in dict (registration) order are not kept by the
\* model: a broadcast creates its messages in the order of SetToSeq.
RECURSIVE SetToSeq(_)
SetToSeq(S) ==
    IF S = {} THEN << >>
    ELSE LET x == CHOOSE y \in S : TRUE IN <<x>> \o SetToSeq(S \ {x})

\* The agents broadcast_message sends to: the subscribers of the topic or,
\* without a topic ("none"), the keys of message_queues.
BroadcastRecipients(topic) ==
    IF topic # "none" THEN SubscribersOf(topic) ELSE SetToSeq(DOMAIN message_queues)

\* broadcast_message applied to a state of the bus: one send_message for each
\* recipient.
broadcast_message(st, topic, priority) == SendAll(st, BroadcastRecipients(topic), priority)

\* A broadcast without recipients changes nothing and is left out.
CM_broadcast_message ==
    /\ CM_Budget
    /\ \E topic \in Topics \cup {"none"}, priority \in {NORMAL, URGENT} :
          LET recipients == BroadcastRecipients(topic)
              st == broadcast_message(CM_State, topic, priority)
          IN  /\ recipients # << >>
              /\ message_queues' = st.queues
              /\ message_history' = st.history
              /\ cm_stats' = st.stats
    /\ UNCHANGED <<subscribers, cm_running, expired, last_receive>>

\* receive_message for an agent without a mailbox, which returns None, or on a
\* mailbox that holds a message (on an empty mailbox the call waits, and with a
\* timeout returns None and changes nothing).
CM_receive_message ==
    /\ CM_Budget
    /\ \E agent_id \in Agents :
          IF agent_id \notin DOMAIN message_queues
          THEN /\ last_receive' = NoMessage
               /\ UNCHANGED <<message_queues, cm_stats>>
          ELSE /\ message_queues[agent_id] # << >>
               /\ LET message == Head(message_queues[agent_id])
                  IN  /\ message_queues' = [ message_queues EXCEPT ![agent_id] = Tail(@) ]
                      /\ IF IsExpired(message)
                         THEN /\ last_receive' = NoMessage
                              /\ UNCHANGED cm_stats
                         ELSE /\ last_receive' = message
                              /\ cm_stats' = [ cm_stats EXCEPT !.messages_received = @ + 1 ]
    /\ UNCHANGED <<message_history, subscribers, cm_running, expired>>

\* The messages the bus still holds, in the history or in a mailbox.
HeldMessages ==
    { message_history[i] : i \in 1..Len(message_history) }
       \cup UNION { { message_queues[a][i] : i \in 1..Len(message_queues[a]) } :
                    a \in DOMAIN message_queues }

\* Time passes: the expires_at of a message falls behind now.
CM_Tick ==
    /\ CM_Budget
    /\ \E message \in HeldMessages :
          /\ message.expires_at
          /\ message.id \notin expired
          /\ expired' = expired \cup {message.id}
    /\ UNCHANGED <<message_queues, message_history, subscribers, cm_stats, cm_running,
                   last_receive>>

\* One pass of _message_processing_loop: expired messages leave the history.
CM_message_processing ==
    /\ component = "CommunicationManager"
    /\ cm_running
    /\ message_history' = SelectSeq(message_history, LAMBDA m : ~IsExpired(m))
    /\ message_history' # message_history
    /\ UNCHANGED <<config, calls, uuid_order, tm_vars, be_vars, pl_vars, message_queues,
                   subscribers, cm_stats, cm_running, expired, last_receive>>

\* message_history[-1000:]
LastEntries(history, n) == SubSeq(history, Len(history) - n + 1, Len(history))

\* One pass of _cleanup_loop that finds the history longer than the limit.
CM_cleanup ==
    /\ component = "CommunicationManager"
    /\ cm_running
    /\ Len(message_history) > HistoryLimit
    /\ message_history' = LastEntries(message_history, HistoryLimit)
    /\ UNCHANGED <<config, calls, uuid_order, tm_vars, be_vars, pl_vars, message_queues,
                   subscribers, cm_stats, cm_running, expired, last_receive>>

NextCM ==
    \/ CM_start
    \/ CM_stop
    \/ CM_register_agent
    \/ CM_unregister_agent
    \/ CM_subscribe_to_topic
    \/ CM_unsubscribe_from_topic
    \/ CM_send_message
    \/ CM_broadcast_message
    \/ CM_receive_message
    \/ CM_Tick
    \/ CM_message_processing
    \/ CM_cleanup

\* ============================================================ specifications
\* Handlers are registered (or not) before scheduling begins; the callers pass
\* one timeout (None or a duration) and one max_retries to every task.
InitShared ==
    /\ calls = 0
    /\ uuid_order = << >>
    /\ task_handlers \in BOOLEAN
    /\ timeout_arg \in BOOLEAN

InitRest == TM_InitVars /\ BE_InitVars /\ PL_InitVars /\ CM_InitVars

\* create_task takes no max_retries: TaskInfo keeps its default.
InitTM ==
    /\ component = "TaskManager"
    /\ InitShared
    /\ max_retries_arg = 0
    /\ status_listeners \in ListenerConfigs
    /\ InitRest

SpecTM == InitTM /\ [][NextTM]_vars

InitBE ==
    /\ component = "BackgroundExecutor"
    /\ InitShared
    /\ max_retries_arg \in MaxRetriesArgs
    /\ status_listeners = << >>
    /\ InitRest

SpecBE == InitBE /\ [][NextBE]_vars

\* The two schedulers: a process runs one or the other.
InitSched == InitTM \/ InitBE

NextSched == NextTM \/ NextBE

SpecSched == InitSched /\ [][NextSched]_vars

\* The planner and the bus take no handlers, timeouts or retries.
InitIdle ==
    /\ calls = 0
    /\ uuid_order = << >>
    /\ task_handlers = FALSE
    /\ timeout_arg = FALSE
    /\ max_retries_arg = 0
    /\ status_listeners = << >>

InitPlanner ==
    /\ component = "PlannerAgent"
    /\ InitIdle
    /\ TM_InitVars /\ BE_InitVars /\ CM_InitVars
    /\ PlannerInput(subtasks)
    /\ plan_pc = "input"
    /\ sorted_subtasks = << >>
    /\ execution_phases = << >>
    /\ task_status = "pending"
    /\ execution_results = << >>
    /\ agent_status = "idle"
    /\ planning_result = NoResult

\* _create_execution_plan on the decomposition of a task that has an id, as
\* the coordinator's tasks have (the id plays no part in the plan).
InitPL == InitPlanner /\ current_task = [ has_id |-> TRUE ]

SpecPL == InitPL /\ [][NextPL]_vars

\* execute called with any task, with or without an id.
InitExecute == InitPlanner /\ current_task \in [ has_id : BOOLEAN ]

SpecExecute == InitExecute /\ [][NextExecute]_vars

\* The coordinator with one task in planning; the decomposition its planner
\* will return is drawn like the planner's inputs.
InitCO ==
    /\ component = "MultiAgentCoordinator"
    /\ InitIdle
    /\ TM_InitVars /\ BE_InitVars /\ CM_InitVars
    /\ PlannerInput(subtasks)
    /\ plan_pc = "input"
    /\ sorted_subtasks = << >>
    /\ execution_phases = << >>
    /\ task_status = "planning"
    /\ execution_results = << >>
    /\ current_task = [ has_id |-> TRUE ]
    /\ agent_status = "idle"
    /\ planning_result = NoResult

SpecCO == InitCO /\ [][NextCO]_vars

InitCM == component = "CommunicationManager" /\ InitIdle /\ InitRest

SpecCM == InitCM /\ [][NextCM]_vars

\* ================================================================= claims
\* C1: the TaskManager dispatches by priority, urgent before high before
\* normal before low: when a task goes from pending to executing, no task that
\* is pending and waiting in the queue has a more urgent priority.
C1_DispatchRespectsPriority ==
    [][ \A t \in DOMAIN tm_tasks, u \in DOMAIN tm_tasks :
          ( /\ tm_tasks[t].status = "pending"
            /\ tm_tasks'[t].status = "executing"
            /\ tm_tasks[u].status = "pending"
            /\ BagIn(<<tm_tasks[u].priority, u>>, tm_task_queue) )
          => tm_tasks[u].priority <= tm_tasks[t].priority ]_vars

\* C2: a task cancelled while its handler runs stays cancelled when the handler
\* returns or raises: the status is still cancelled, no result is stored and
\* the task is not put back in the queue.
C2_CancelDuringHandlerSticks ==
    [][ \A l \in 1..MaxLoops :
          ( /\ tm_loops[l].pc = "handler"
            /\ tm_loops'[l].pc # "handler"
            /\ tm_tasks[tm_loops[l].task].status = "cancelled" )
          => /\ tm_tasks'[tm_loops[l].task].status = "cancelled"
             /\ tm_tasks'[tm_loops[l].task].results = tm_tasks[tm_loops[l].task].results
             /\ tm_task_queue' = tm_task_queue ]_vars

\* C3: when the BackgroundExecutor starts on a store, every record found
\* pending or running is loaded as pending and put in the queue, so that it is
\* dispatched (a record found running is treated as pending).
C3_RecoveryRequeuesActive ==
    [][ (~be_running /\ be_running')
        => \A t \in DOMAIN db :
              db[t].status \in {"pending", "running"}
              => /\ t \in DOMAIN be_tasks'
                 /\ be_tasks'[t].status = "pending"
                 /\ BagIn(<<db[t].priority, t>>, be_task_queue') ]_vars

C7_StateMachine ==
    [][ \A t \in DOMAIN tm_tasks :
          \/ tm_tasks'[t].status = tm_tasks[t].status
          \/ <<tm_tasks[t].status, tm_tasks'[t].status>> \in
                { <<"pending", "executing">>, <<"executing", "completed">>,
                  <<"executing", "failed">>, <<"executing", "cancelled">>,
                  <<"executing", "paused">>, <<"paused", "executing">>,
                  <<"pending", "cancelled">>, <<"paused", "cancelled">>,
                  <<"failed", "pending">>, <<"pending", "failed">> } ]_vars

\* C8, as stated: started_at is set if and only if the task has at some point
\* left pending, a cancellation or a pre-dispatch timeout included (a task is
\* pending again only after a retry, which counts in retry_count).
C8_StartedIffLeftPending ==
    \A t \in DOMAIN tm_tasks :
        tm_tasks[t].started_at
            <=> (tm_tasks[t].status # "pending" \/ tm_tasks[t].retry_count > 0)

\* C8, amended: started_at is set if and only if the task has at some point
\* entered executing: it is unset on creation, becomes set exactly in the step
\* that takes the task into executing (the dispatch without a handler goes on
\* to failed in the same step) and is never unset.
C8_StartedIffEnteredExecuting ==
    [][ \A t \in DOMAIN tm_tasks' :
          tm_tasks'[t].started_at
            <=> /\ t \in DOMAIN tm_tasks
                /\ \/ tm_tasks[t].started_at
                   \/ tm_tasks'[t].status = "executing"
                   \/ /\ tm_tasks[t].status = "pending"
                      /\ tm_tasks'[t].status = "failed"
                      /\ tm_tasks'[t].error = "no_handler" ]_vars

\* C8 witness: one task left pending by the pre-dispatch timeout and has no
\* started_at, another was dispatched and has it.
C8_Witness ==
    \E t \in DOMAIN tm_tasks, u \in DOMAIN tm_tasks :
        /\ tm_tasks[t].status = "failed"
        /\ tm_tasks[t].error = "timeout"
        /\ ~tm_tasks[t].started_at
        /\ tm_tasks[u].status = "completed"
        /\ tm_tasks[u].started_at

\* The phase of the plan that holds a subtask, and the subtasks of the phases
\* before phase p.
PhaseOf(id) == CHOOSE p \in 1..Len(execution_phases) : InSeq(id, execution_phases[p])

PlacedBefore(p) ==
    UNION { { execution_phases[q][i] : i \in 1..Len(execution_phases[q]) } : q \in 1..(p - 1) }

\* The dependencies among the subtasks of the list have no cycle.
Acyclic(list) ==
    \E rank \in [ Ids(list) -> 1..Len(list) ] :
        \A i \in 1..Len(list) :
            \A d \in list[i].dependencies \cap Ids(list) : rank[d] < rank[list[i].id]

\* C4: in the plan made for an acyclic subtask set, every subtask is in a
\* phase strictly later than the phase of each of its dependencies.
C4_DependenciesInEarlierPhases ==
    (plan_pc = "planned" /\ Acyclic(subtasks))
    => \A i \in 1..Len(subtasks) :
          \A d \in subtasks[i].dependencies \cap Ids(subtasks) :
              PhaseOf(d) < PhaseOf(subtasks[i].id)

\* C5: the diamond a, b (a), c (a), d (b, c) is planned as the three phases
\* {a}, {b, c}, {d}, and in general (acyclic input, dependencies all in the
\* list) each phase is the largest set of subtasks not placed before whose
\* dependencies are all placed in earlier phases.
C5_PhasesAreMaximal ==
    ( /\ plan_pc = "planned"
      /\ Acyclic(subtasks)
      /\ \A i \in 1..Len(subtasks) : subtasks[i].dependencies \subseteq Ids(subtasks) )
    => /\ \A p \in 1..Len(execution_phases) :
             { execution_phases[p][i] : i \in 1..Len(execution_phases[p]) }
               = { subtasks[i].id : i \in
                     { j \in 1..Len(subtasks) :
                         /\ subtasks[j].id \notin PlacedBefore(p)
                         /\ subtasks[j].dependencies \subseteq PlacedBefore(p) } }
       /\ ( /\ Len(subtasks) = 4
            /\ \A i \in 1..4 :
                 subtasks[i].dependencies =
                    { e[2] : e \in { l \in Diamond : l[1] = subtasks[i].id } } )
          => /\ Len(execution_phases) = 3
             /\ PlacedBefore(2) = {"a"}
             /\ PlacedBefore(3) = {"a", "b", "c"}

\* C9: a message whose expires_at is past when receive_message takes it from
\* the mailbox is not returned and does not count in messages_received.
C9_ExpiredNeverReturned ==
    [][ \A a \in DOMAIN message_queues \cap DOMAIN message_queues' :
          ( /\ message_queues[a] # << >>
            /\ message_queues'[a] = Tail(message_queues[a])
            /\ Head(message_queues[a]).id \in expired )
          => /\ last_receive' = NoMessage
             /\ cm_stats'.messages_received = cm_stats.messages_received ]_vars

\* C9 witness: an agent registered, was sent one message that has expired, and
\* a receive took it from the mailbox: nothing returned, nothing counted.
C9_Witness ==
    /\ calls = 3
    /\ cm_stats.messages_sent = 1
    /\ cm_stats.messages_received = 0
    /\ last_receive = NoMessage
    /\ \E a \in DOMAIN message_queues :
          /\ message_queues[a] = << >>
          /\ Len(message_history) = 1
          /\ message_history[1].recipient = a
          /\ message_history[1].id \in expired

\* C10: receive_message skips expired messages: a receive on a mailbox that
\* holds an unexpired message returns the first unexpired message of the
\* mailbox, whatever expired messages are queued ahead of it.
C10_ReceiveSkipsExpired ==
    [][ \A a \in DOMAIN message_queues \cap DOMAIN message_queues' :
          ( /\ message_queues[a] # << >>
            /\ message_queues'[a] = Tail(message_queues[a])
            /\ \E i \in 1..Len(message_queues[a]) : message_queues[a][i].id \notin expired )
          => \E i \in 1..Len(message_queues[a]) :
                /\ message_queues[a][i].id \notin expired
                /\ \A j \in 1..(i - 1) : message_queues[a][j].id \in expired
                /\ last_receive' = message_queues[a][i] ]_vars

\* C11: per recipient, messages are received in priority-then-arrival order:
\* the message a receive returns has no unexpired message of a higher priority
\* queued with it in the mailbox, and none of the same priority sent earlier.
C11_MailboxPriorityOrder ==
    [][ \A a \in DOMAIN message_queues \cap DOMAIN message_queues' :
          ( /\ message_queues[a] # << >>
            /\ message_queues'[a] = Tail(message_queues[a])
            /\ last_receive' = Head(message_queues[a]) )
          => \A i \in 2..Len(message_queues[a]) :
                \/ message_queues[a][i].id \in expired
                \/ /\ message_queues[a][i].priority <= last_receive'.priority
                   /\ ( message_queues[a][i].priority = last_receive'.priority
                        => message_queues[a][i].id > last_receive'.id ) ]_vars

\* C12: when a BackgroundExecutor handler raises, a task with retry_count <
\* max_retries goes back to pending with retry_count one higher and is put in
\* the queue again with its priority; a task with retry_count = max_retries
\* becomes failed, is not queued, and a failed task stays failed.
C12_AutomaticRetry ==
    [][ \A t \in DOMAIN be_tasks \cap DOMAIN be_tasks' :
          /\ ( /\ CopiesIn(t, be_workers') < CopiesIn(t, be_workers)
               /\ be_running'
               /\ be_tasks'[t].status # "completed" )
             => IF be_tasks[t].retry_count < be_tasks[t].max_retries
                THEN /\ be_tasks'[t].status = "pending"
                     /\ be_tasks'[t].retry_count = be_tasks[t].retry_count + 1
                     /\ be_tasks'[t].priority = be_tasks[t].priority
                     /\ be_task_queue' = be_task_queue (+) SetToBag({<<be_tasks[t].priority, t>>})
                ELSE /\ be_tasks'[t].status = "failed"
                     /\ be_tasks'[t].retry_count = be_tasks[t].retry_count
                     /\ be_task_queue' = be_task_queue
          /\ be_tasks[t].status = "failed" => be_tasks'[t].status = "failed" ]_vars

\* C12 witness: a task whose handler raised on every call has used its retry
\* and is failed.
C12_Witness ==
    \E t \in DOMAIN be_tasks :
        /\ be_tasks[t].status = "failed"
        /\ be_tasks[t].error = "exception"
        /\ be_tasks[t].retry_count = 1
        /\ be_tasks[t].max_retries = 1

\* C13: a task whose type has no registered handler ends failed with the
\* handler-not-found error and is never retried, whatever its max_retries:
\* in the BackgroundExecutor its retry_count stays 0, and the TaskManager
\* dispatch of such a task leaves it failed, with retry_count unchanged and
\* not in the queue.
C13_NoHandlerNeverRetried ==
    [][ ~task_handlers
        => /\ \A t \in DOMAIN be_tasks' : be_tasks'[t].retry_count = 0
           /\ \A t \in DOMAIN tm_tasks \cap DOMAIN tm_tasks' :
                 ( /\ tm_tasks[t].status = "pending"
                   /\ tm_tasks'[t].status \notin {"pending", "cancelled"}
                   /\ tm_tasks'[t].error # "timeout" )
                 => /\ tm_tasks'[t].status = "failed"
                    /\ tm_tasks'[t].error = "no_handler"
                    /\ tm_tasks'[t].retry_count = tm_tasks[t].retry_count
                    /\ ~BagIn(<<tm_tasks[t].priority, t>>, tm_task_queue') ]_vars

\* C14: the watchdog fails every task with a timeout that is executing or
\* paused once started_at + timeout has elapsed, whatever its handler does:
\* while the TaskManager runs, a scan of the timeout check loop sets each such
\* task to failed (the loop scans again and again, so it then happens).
C14_WatchdogFailsOverdue ==
    tm_running
    => \A t \in DOMAIN tm_tasks :
          ( /\ tm_tasks[t].status \in {"executing", "paused"}
            /\ tm_tasks[t].timeout
            /\ tm_tasks[t].started_at
            /\ tm_late[t] = 2 )
          => TM_Scan(TM_DictOrder, tm_tasks, tm_stats).tasks[t].status = "failed"

\* C15: the in-memory view of the BackgroundExecutor never diverges from the
\* store: every task held in memory has its current state written (a write
\* that fails is reported and the operation does not go on).
C15_MemoryMatchesStore ==
    \A t \in DOMAIN be_tasks :
        /\ t \in DOMAIN db
        /\ db[t].status = be_tasks[t].status
        /\ db[t].retry_count = be_tasks[t].retry_count

\* C16: a send to a recipient that is not registered counts one in
\* messages_failed, leaves messages_sent alone and leaves the message state as
\* it was: no mailbox and no history entry changes.
C16_FailedSendChangesNothing ==
    [][ ( /\ cm_stats'.messages_failed = cm_stats.messages_failed + 1
          /\ cm_stats'.messages_sent = cm_stats.messages_sent )
        => /\ message_queues' = message_queues
           /\ message_history' = message_history ]_vars

\* C17: pending tasks of equal priority that wait in the queue together leave
\* it in the order they were put in: when the entry of a task is taken from the
\* queue, no task of the same priority created before it (neither of them
\* retried, so each was queued when it was created) is still waiting there.
\* Tasks are numbered in creation order.
C17_EqualPriorityFIFO ==
    [][ /\ \A t \in DOMAIN tm_tasks, u \in DOMAIN tm_tasks :
              ( /\ CopiesIn(<<tm_tasks[t].priority, t>>, tm_task_queue')
                      < CopiesIn(<<tm_tasks[t].priority, t>>, tm_task_queue)
                /\ BagIn(<<tm_tasks[u].priority, u>>, tm_task_queue)
                /\ tm_tasks[t].status = "pending" /\ tm_tasks[u].status = "pending"
                /\ tm_tasks[t].retry_count = 0 /\ tm_tasks[u].retry_count = 0
                /\ tm_tasks[t].priority = tm_tasks[u].priority )
              => t <= u
        /\ \A t \in DOMAIN be_tasks, u \in DOMAIN be_tasks :
              ( /\ CopiesIn(<<be_tasks[t].priority, t>>, be_task_queue')
                      < CopiesIn(<<be_tasks[t].priority, t>>, be_task_queue)
                /\ BagIn(<<be_tasks[u].priority, u>>, be_task_queue)
                /\ be_tasks[t].status = "pending" /\ be_tasks[u].status = "pending"
                /\ be_tasks[t].retry_count = 0 /\ be_tasks[u].retry_count = 0
                /\ be_tasks[t].priority = be_tasks[u].priority )
              => t <= u ]_vars

\* The edges of the task state machine (the direct failure of a pending task
\* by the scheduling loop included).
AllowedEdges ==
    { <<"pending", "executing">>, <<"executing", "completed">>,
      <<"executing", "failed">>, <<"executing", "cancelled">>,
      <<"executing", "paused">>, <<"paused", "executing">>,
      <<"pending", "cancelled">>, <<"paused", "cancelled">>,
      <<"failed", "pending">>, <<"pending", "failed">> }

\* C18: update_task_status rejects a request that is not an edge of the state
\* machine: asked, in any state the TaskManager reaches, to take a task to
\* another status along no edge, it leaves the task (status, timestamps) and
\* the counters as they are.
C18_InvalidTransitionRejected ==
    \A t \in DOMAIN tm_tasks :
        \A status \in {"pending", "executing", "paused", "completed", "failed", "cancelled"} :
            ( /\ status # tm_tasks[t].status
              /\ <<tm_tasks[t].status, status>> \notin AllowedEdges )
            => /\ update_task_status(tm_tasks, tm_stats, t, status, "none").tasks = tm_tasks
               /\ update_task_status(tm_tasks, tm_stats, t, status, "none").stats = tm_stats

\* C19: cancel is idempotent: cancel_task on a task that is already cancelled
\* (or completed or failed) changes nothing and returns success, in the
\* TaskManager and in the BackgroundExecutor.
C19_CancelIdempotent ==
    /\ \A t \in DOMAIN tm_tasks :
          tm_tasks[t].status \in {"cancelled", "completed", "failed"}
          => cancel_task_returns(tm_tasks, t) = TRUE
    /\ \A t \in DOMAIN be_tasks :
          be_tasks[t].status \in {"cancelled", "completed", "failed"}
          => BE_cancel_task_returns(be_tasks, t) = TRUE

\* C20: a pending task taken from the queue after created_at + timeout has
\* elapsed goes directly to failed with the timeout reason: it does not enter
\* executing (started_at is not touched) and no handler runs for it, in the
\* TaskManager and in the BackgroundExecutor.
C20_LateDequeueFailsDirectly ==
    [][ /\ \A t \in DOMAIN tm_tasks \cap DOMAIN tm_tasks' :
              ( /\ CopiesIn(<<tm_tasks[t].priority, t>>, tm_task_queue')
                      < CopiesIn(<<tm_tasks[t].priority, t>>, tm_task_queue)
                /\ tm_tasks[t].status = "pending"
                /\ tm_tasks[t].timeout
                /\ tm_late[t] >= 1 )
              => /\ tm_tasks'[t].status = "failed"
                 /\ tm_tasks'[t].error = "timeout"
                 /\ tm_tasks'[t].started_at = tm_tasks[t].started_at
                 /\ tm_tasks'[t].results = tm_tasks[t].results
                 /\ \A l \in 1..MaxLoops :
                       ~(tm_loops'[l].pc = "handler" /\ tm_loops'[l].task = t)
        /\ \A t \in DOMAIN be_tasks \cap DOMAIN be_tasks' :
              ( /\ CopiesIn(<<be_tasks[t].priority, t>>, be_task_queue')
                      < CopiesIn(<<be_tasks[t].priority, t>>, be_task_queue)
                /\ be_tasks[t].status = "pending"
                /\ be_tasks[t].timeout
                /\ be_late[t] >= 1 )
              => /\ be_tasks'[t].status = "failed"
                 /\ be_tasks'[t].error = "timeout"
                 /\ be_tasks'[t].started_at = be_tasks[t].started_at
                 /\ ~BagIn(t, be_workers') ]_vars

\* C20 witness: a task was taken from the queue after its deadline and is
\* failed for the timeout without ever having started.
C20_Witness ==
    \E t \in DOMAIN tm_tasks :
        /\ tm_tasks[t].status = "failed"
        /\ tm_tasks[t].error = "timeout"
        /\ tm_late[t] >= 1
        /\ ~tm_tasks[t].started_at
        /\ ~BagIn(<<tm_tasks[t].priority, t>>, tm_task_queue)

\* A task that was cancelled before it was ever dispatched.
CancelledWhilePending(t) ==
    \/ /\ t \in DOMAIN tm_tasks
       /\ tm_tasks[t].status = "cancelled"
       /\ ~tm_tasks[t].started_at
    \/ /\ t \in DOMAIN be_tasks
       /\ be_tasks[t].status = "cancelled"
       /\ ~be_tasks[t].started_at

\* The task is executing, or its handler is running.
Dispatched(t) ==
    \/ /\ t \in DOMAIN tm_tasks
       /\ \/ tm_tasks[t].status = "executing"
          \/ \E l \in 1..MaxLoops : tm_loops[l].pc = "handler" /\ tm_loops[l].task = t
    \/ /\ t \in DOMAIN be_tasks
       /\ (be_tasks[t].status = "running" \/ BagIn(t, be_workers))

\* C21: a task cancelled while pending is never dispatched afterwards.  The
\* only way to executing (running) is from pending, so the claim is that such
\* a task, while the scheduler keeps it, stays cancelled and unstarted, with
\* no handler running for it, whatever is left in the queue.
C21_CancelledPendingNeverDispatched ==
    [][ \A t \in 1..MaxTasks :
          (CancelledWhilePending(t) /\ t \in DOMAIN tm_tasks' \cup DOMAIN be_tasks')
          => (CancelledWhilePending(t)' /\ ~Dispatched(t)') ]_vars

\* C22: retry_task succeeds only for a failed task with retry_count below
\* max_retries: it then adds one to retry_count, sets the status to pending and
\* puts the task in the queue once, at its own priority.  For an unknown id, a
\* task that is not failed or one with retry_count = max_retries it returns
\* False and changes nothing.
C22_RetryTaskContract ==
    \A task_id \in 0..(MaxTasks + 1) :
        LET r == retry_task(tm_tasks, tm_task_queue, task_id)
            known == task_id \in DOMAIN tm_tasks
        IN  IF /\ known
               /\ tm_tasks[task_id].status = "failed"
               /\ tm_tasks[task_id].retry_count < tm_tasks[task_id].max_retries
            THEN /\ r.returns
                 /\ r.tasks[task_id].retry_count = tm_tasks[task_id].retry_count + 1
                 /\ r.tasks[task_id].status = "pending"
                 /\ r.tasks[task_id].priority = tm_tasks[task_id].priority
                 /\ \A u \in DOMAIN tm_tasks : u # task_id => r.tasks[u] = tm_tasks[u]
                 /\ \A e \in BagToSet(r.queue) \cup BagToSet(tm_task_queue) :
                       CopiesIn(e, r.queue) =
                          CopiesIn(e, tm_task_queue)
                             + (IF e = <<tm_tasks[task_id].priority, task_id>> THEN 1 ELSE 0)
            ELSE /\ ~r.returns
                 /\ r.tasks = tm_tasks
                 /\ r.queue = tm_task_queue

\* C22 witness: a task went through every retry it is allowed (each one put it
\* back in the queue and it was dispatched again) and is failed once more, so
\* that the next retry_task is refused.
C22_Witness ==
    \E t \in DOMAIN tm_tasks :
        /\ tm_tasks[t].status = "failed"
        /\ tm_tasks[t].retry_count = DefaultMaxRetries
        /\ tm_tasks[t].max_retries = DefaultMaxRetries
        /\ ~BagIn(<<tm_tasks[t].priority, t>>, tm_task_queue)

\* The subtasks that were executed with success.
CO_Succeeded == { execution_results[i].id : i \in { j \in 1..Len(execution_results) :
                                                       execution_results[j].success } }

RECURSIVE PlanIds(_)
PlanIds(phases) ==
    IF phases = << >> THEN << >> ELSE Head(phases) \o PlanIds(Tail(phases))

\* C24: for every list of subtasks with distinct ids, with or without cycles
\* and unknown dependencies, the phases of the plan partition the subtask ids:
\* each id of the list is in exactly one phase, once, and no other id is.
C24_PhasesPartitionSubtasks ==
    plan_pc = "planned"
    => LET ids == PlanIds(execution_phases)
       IN  /\ { ids[i] : i \in 1..Len(ids) } = Ids(subtasks)
           /\ \A i \in 1..Len(ids), j \in 1..Len(ids) : ids[i] = ids[j] => i = j
           /\ \A p \in 1..Len(execution_phases) : execution_phases[p] # << >>

\* C24 witness: a plan in several phases for a list with a dependency cycle
\* and a dependency on an id that is not in the list.
C24_Witness ==
    /\ plan_pc = "planned"
    /\ Len(execution_phases) >= 2
    /\ ~Acyclic(subtasks)
    /\ \E i \in 1..Len(subtasks) : UnknownId \in subtasks[i].dependencies

\* The lists of _topological_sort after k iterations of its loop on a list.
RECURSIVE TopoAfter(_, _)
TopoAfter(tasks, k) ==
    IF k = 0 THEN [ sorted |-> << >>, remaining |-> tasks ]
    ELSE LET before == TopoAfter(tasks, k - 1)
         IN  IF before.remaining = << >> THEN before
             ELSE TopoIteration(before.sorted, before.remaining)

\* C25: _topological_sort terminates on every finite list, cycles and unknown
\* dependencies included: each iteration moves exactly one of the remaining
\* subtasks to the sorted list, so that after as many iterations as the list
\* has subtasks none remains, and that is the list the sort returns.
C25_TopologicalSortTerminates ==
    /\ \A k \in 0..(Len(subtasks) - 1) :
          LET before == TopoAfter(subtasks, k)
              after == TopoAfter(subtasks, k + 1)
          IN  /\ Len(before.remaining) = Len(subtasks) - k
              /\ Len(after.remaining) = Len(before.remaining) - 1
              /\ Len(after.sorted) = Len(before.sorted) + 1
              /\ \E i \in 1..Len(before.remaining) :
                    /\ after.sorted = Append(before.sorted, before.remaining[i])
                    /\ after.remaining = SubSeq(before.remaining, 1, i - 1)
                                            \o SubSeq(before.remaining, i + 1,
                                                      Len(before.remaining))
    /\ TopoAfter(subtasks, Len(subtasks)).remaining = << >>
    /\ plan_pc # "input"
          => sorted_subtasks = TopoAfter(subtasks, Len(subtasks)).sorted

\* C25 witness: the sort has returned on a list of MaxSubtasks subtasks whose
\* dependencies form a cycle.
C25_Witness ==
    /\ plan_pc = "sorted"
    /\ Len(subtasks) = MaxSubtasks
    /\ ~Acyclic(subtasks)
    /\ Len(sorted_subtasks) = Len(subtasks)

\* No remaining subtask has all its dependencies placed.
NoneReady(sorted_tasks, remaining_tasks) ==
    \A i \in 1..Len(remaining_tasks) :
        ~(remaining_tasks[i].dependencies \subseteq Ids(sorted_tasks))

\* C26: when no remaining subtask has all its dependencies placed, the planner
\* places next the remaining subtask of the numerically lowest priority, and
\* that subtask is alone in its phase of the plan.  Stated for the lists whose
\* dependencies all name subtasks of the list, where it is a cycle that keeps
\* the remaining subtasks from being ready.
C26_TieBreakAloneInPhase ==
    ( /\ plan_pc = "planned"
      /\ \A i \in 1..Len(subtasks) : subtasks[i].dependencies \subseteq Ids(subtasks) )
    => \A k \in 0..(Len(subtasks) - 1) :
          LET before == TopoAfter(subtasks, k)
              placed == sorted_subtasks[k + 1]
          IN  NoneReady(before.sorted, before.remaining)
              => /\ \A i \in 1..Len(before.remaining) :
                       placed.priority <= before.remaining[i].priority
                 /\ execution_phases[PhaseOf(placed.id)] = <<placed.id>>

\* The mailbox of an agent in a map of mailboxes; an agent without a mailbox
\* holds nothing.
Mailbox(queues, agent_id) == IF agent_id \in DOMAIN queues THEN queues[agent_id] ELSE << >>

\* C27: broadcast_message without a topic adds exactly one message to the
\* mailbox of every registered agent and to no other; with a topic it adds
\* exactly one message for each agent subscribed to the topic and none for the
\* agents that are not subscribed.
C27_BroadcastReachesRecipients ==
    \A topic \in Topics \cup {"none"}, priority \in {NORMAL, URGENT} :
        LET r == broadcast_message(CM_State, topic, priority)
            target(a) == IF topic = "none" THEN a \in DOMAIN message_queues
                         ELSE InSeq(a, SubscribersOf(topic))
        IN  \A a \in Agents :
               LET before == Mailbox(message_queues, a)
                   after == Mailbox(r.queues, a)
               IN  IF target(a)
                   THEN /\ Len(after) = Len(before) + 1
                        /\ SubSeq(after, 1, Len(before)) = before
                        /\ after[Len(after)].recipient = a
                        /\ after[Len(after)].priority = priority
                   ELSE after = before

\* The entry message_history[k] is not in the history after the step.
Dropped(k) == ~InSeq(message_history[k], message_history')

\* C28: the history never holds more than the limit of messages; the entries
\* evicted are the oldest, so that those kept are the most recent in send
\* order (an entry that leaves because it expired is not an eviction); and a
\* step that shortens the history changes no mailbox.
C28_HistoryBounded ==
    [][ /\ Len(message_history') <= HistoryLimit
        /\ Len(message_history') < Len(message_history)
              => /\ message_queues' = message_queues
                 /\ \A i \in 1..Len(message_history), j \in 1..Len(message_history) :
                       (i < j /\ Dropped(j) /\ ~IsExpired(message_history[j]))
                       => Dropped(i) ]_vars

\* C29: a status listener that raises does not abort the transition that
\* notified it.  On every step that creates a task or changes a status through
\* update_task_status (retry_task notifies nobody), all the listeners were
\* called, no exception left the notification, the task keeps the new status
\* with its timestamp and the counters, and a dispatch goes on to the handler.
C29_ListenerFailureContained ==
    [][ \A t \in DOMAIN tm_tasks' :
          LET created == t \notin DOMAIN tm_tasks
              changed == /\ ~created
                         /\ tm_tasks'[t].status # tm_tasks[t].status
                         /\ tm_tasks'[t].status # "pending"
          IN  /\ (created \/ changed)
                 => /\ ~last_notified'.raised
                    /\ last_notified'.invoked
                          = [ k \in 1..Len(status_listeners) |-> k ]
              /\ created
                 => /\ tm_tasks'[t].status = "pending"
                    /\ BagIn(<<tm_tasks'[t].priority, t>>, tm_task_queue')
                    /\ tm_stats'.total_tasks = tm_stats.total_tasks + 1
              /\ (changed /\ tm_tasks'[t].status \in TM_Terminal)
                 => /\ tm_tasks'[t].completed_at
                    /\ tm_stats'.active_tasks < tm_stats.active_tasks
              /\ (changed /\ tm_tasks[t].status = "pending"
                          /\ tm_tasks'[t].status # "cancelled"
                          /\ task_handlers
                          /\ ~(tm_tasks[t].timeout /\ tm_late[t] >= 1))
                 => /\ tm_tasks'[t].status = "executing"
                    /\ tm_tasks'[t].started_at
                    /\ \E l \in 1..MaxLoops :
                          tm_loops'[l] = [ pc |-> "handler", task |-> t ] ]_vars

\* C29 witness: with a listener that raises registered before one that
\* returns, a task was created, dispatched and completed, and the last
\* notification called both listeners.
C29_Witness ==
    /\ status_listeners = <<"raises", "returns">>
    /\ last_notified.invoked = <<1, 2>>
    /\ \E t \in DOMAIN tm_tasks :
          /\ tm_tasks[t].status = "completed"
          /\ tm_tasks[t].results
          /\ tm_tasks[t].started_at
          /\ tm_tasks[t].completed_at

\* C30: in the TaskManager and in the BackgroundExecutor a task has an error
\* recorded only while its status is failed: a task that is pending, executing
\* (running), paused, completed or cancelled has none.
C30_ErrorOnlyWhileFailed ==
    /\ \A t \in DOMAIN tm_tasks :
          tm_tasks[t].status # "failed" => tm_tasks[t].error = "none"
    /\ \A t \in DOMAIN be_tasks :
          be_tasks[t].status # "failed" => be_tasks[t].error = "none"

\* C31: completed_at is set only for a TaskManager task whose status is
\* terminal; a pending, executing or paused task, one that re-entered pending
\* through retry_task included, has no completed_at.
C31_CompletedAtOnlyWhenTerminal ==
    component = "TaskManager" =>
        \A t \in DOMAIN tm_tasks :
            tm_tasks[t].completed_at => tm_tasks[t].status \in TM_Terminal

\* The messages in the mailbox of an agent.
InMailbox(queues, agent_id) ==
    IF agent_id \in DOMAIN queues
    THEN { queues[agent_id][i] : i \in 1..Len(queues[agent_id]) }
    ELSE {}

C33_EveryTransitionNotifies ==
    [][ \A t \in DOMAIN tm_tasks' :
          ( /\ status_listeners # << >>
            /\ t \notin DOMAIN tm_tasks \/ tm_tasks'[t].status # tm_tasks[t].status )
          => /\ last_notified'.invoked = [ k \in 1..Len(status_listeners) |-> k ]
             /\ \E i \in 1..Len(last_notified'.notified) :
                   last_notified'.notified[i] = <<t, tm_tasks'[t].status>> ]_vars

\* C34: PlannerAgent.execute returns a complete planning result for any task
\* description, a task without an id included: once execute has ended no
\* exception has left it, the result has a task id, the subtasks of the
\* decomposition (the default three-subtask chain when the replies are not
\* parseable), an agent type for every subtask and the execution plan, and the
\* agent's status is completed.
C34_ExecuteReturnsCompletePlan ==
    (component = "PlannerAgent" /\ plan_pc = "done")
    => /\ planning_result.raised = "none"
       /\ planning_result.task_id \in {"id", "uuid4"}
       /\ planning_result.subtasks = subtasks
       /\ DOMAIN planning_result.agent_assignments = Ids(subtasks)
       /\ planning_result.execution_plan = execution_phases
       /\ agent_status = "completed"

\* The number of TaskManager tasks whose status is in the set.
TM_Count(statuses) == Cardinality({ t \in DOMAIN tm_tasks : tm_tasks[t].status \in statuses })

\* C35: in every reachable state of the TaskManager stats.active_tasks is the
\* number of tasks whose status is not terminal, and so never negative,
\* stats.completed_tasks the number of completed tasks and stats.failed_tasks
\* the number of failed tasks.
C35_StatsCountTasks ==
    component = "TaskManager" =>
        /\ tm_stats.active_tasks = Cardinality(DOMAIN tm_tasks) - TM_Count(TM_Terminal)
        /\ tm_stats.active_tasks >= 0
        /\ tm_stats.completed_tasks = TM_Count({"completed"})
        /\ tm_stats.failed_tasks = TM_Count({"failed"})

\* The processing loops that are alive, and those inside a handler.
TM_AliveLoops == { l \in 1..MaxLoops : tm_loops[l].pc # "none" }

TM_InHandler == { l \in 1..MaxLoops : tm_loops[l].pc = "handler" }

\* C36: for any sequence of start() and stop() calls at most one task
\* processing loop is alive, so at most one handler invocation is in progress,
\* and no task is dispatched (taken from pending to executing) while the
\* manager is stopped.
C36_OneProcessingLoop ==
    [][ /\ Cardinality(TM_AliveLoops') <= 1
        /\ Cardinality(TM_InHandler') <= 1
        /\ (~tm_running /\ ~tm_running')
           => \A t \in DOMAIN tm_tasks :
                 tm_tasks[t].status = "pending" => tm_tasks'[t].status # "executing" ]_vars

\* C37: with the workers of the BackgroundExecutor interleaving in any order
\* with submit, cancel and automatic retry, the handler of a task never runs in
\* two workers at once: a worker begins a task only when its status is pending
\* and has set it to running when the step ends.
C37_OneWorkerPerTask ==
    [][ \A t \in 1..MaxTasks :
          /\ CopiesIn(t, be_workers') <= 1
          /\ CopiesIn(t, be_workers') > CopiesIn(t, be_workers)
             => /\ be_tasks[t].status = "pending"
                /\ be_tasks'[t].status = "running" ]_vars

\* C37 witness: a task runs in a worker while the queue holds another entry
\* for it (the task was queued again when start() reloaded it as pending).
C37_Witness ==
    \E t \in DOMAIN be_tasks :
        /\ BE_Executing(t)
        /\ be_tasks[t].status = "running"
        /\ BagIn(<<be_tasks[t].priority, t>>, be_task_queue)

\* The stored record has the status, retry count, timestamps, result and error
\* of the in-memory record.
SameRecord(row, task) ==
    /\ row.status = task.status
    /\ row.retry_count = task.retry_count
    /\ row.started_at = task.started_at
    /\ row.completed_at = task.completed_at
    /\ row.result = task.result
    /\ row.error = task.error

\* C38: while the store's writes succeed (the connection is open before and
\* after the step) the store is kept a faithful copy of memory: after each
\* step the task it submitted or changed has a stored record equal to its
\* in-memory record, and a task that cleanup_old_tasks removed from memory has
\* no stored record.
C38_StoreMirrorsMemory ==
    [][ (db_conn /\ db_conn')
        => /\ \A t \in DOMAIN be_tasks' :
                 (t \notin DOMAIN be_tasks \/ be_tasks'[t] # be_tasks[t])
                 => /\ t \in DOMAIN db'
                    /\ SameRecord(db'[t], be_tasks'[t])
           /\ \A t \in DOMAIN be_tasks \ DOMAIN be_tasks' : t \notin DOMAIN db' ]_vars

\* The ids of the first k subtasks of a list.
IdsUpTo(list, k) == { list[j].id : j \in 1..k }

\* C39: for an acyclic subtask list whose dependencies all name ids of the
\* list, _topological_sort returns a permutation of the list in which every
\* subtask comes after all of its dependencies, and each subtask it appended
\* had the lowest priority value among the subtasks not yet placed whose
\* dependencies were all placed.  Stated of the list the sort has just returned.
C39_SortRespectsDependenciesAndPriority ==
    ( /\ plan_pc = "sorted"
      /\ \A i \in 1..Len(subtasks) : subtasks[i].dependencies \subseteq Ids(subtasks)
      /\ Acyclic(subtasks) )
    => /\ Len(sorted_subtasks) = Len(subtasks)
       /\ \A i \in 1..Len(subtasks) :
             Cardinality({ j \in 1..Len(sorted_subtasks) : sorted_subtasks[j] = subtasks[i] })
                = Cardinality({ j \in 1..Len(subtasks) : subtasks[j] = subtasks[i] })
       /\ \A k \in 1..Len(sorted_subtasks) :
             /\ sorted_subtasks[k].dependencies \subseteq IdsUpTo(sorted_subtasks, k - 1)
             /\ \A j \in k..Len(sorted_subtasks) :
                   sorted_subtasks[j].dependencies \subseteq IdsUpTo(sorted_subtasks, k - 1)
                   => sorted_subtasks[k].priority <= sorted_subtasks[j].priority

\* C39 witness: the sort has returned on an acyclic list of MaxSubtasks
\* subtasks with a dependency, in an order that is not the order of the list.
C39_Witness ==
    /\ component = "PlannerAgent"
    /\ plan_pc = "sorted"
    /\ Len(subtasks) = MaxSubtasks
    /\ Acyclic(subtasks)
    /\ \A i \in 1..Len(subtasks) : subtasks[i].dependencies \subseteq Ids(subtasks)
    /\ \E i \in 1..Len(subtasks) : subtasks[i].dependencies # {}
    /\ sorted_subtasks # subtasks
    /\ sorted_subtasks[1].priority > sorted_subtasks[2].priority

====
